---- MODULE Spec2Model ----
(***************************************************************************)
(* go-uploader: the upload request handler (src/main.go, uploadHandler),   *)
(* the filename sanitizer and the local storage backend                    *)
(* (src/storage/local_storage.go), as a state machine.                     *)
(*                                                                         *)
(* Strings are sequences of characters; a character is a TLA+ string.      *)
(* One handler invocation is one session; its program counter pc names the *)
(* source line the handler is about to execute.                            *)
(***************************************************************************)
EXTENDS Integers, Sequences, FiniteSets, TLC

\* ------------------------------------------------------------------ bounds
\* most results (parts, read errors) a request body yields before it ends
MaxReads == 2
\* time.Now() is drawn from 0..MaxNow clock ticks
MaxNow == 2
\* clock ticks per millisecond (time.Now() is finer than the ".000" layout)
TicksPerMs == 2
\* bytes moved by one Read/Write round of io.Copy
ChunkSize == 1

\* longest filename tried on sanitizeFilename
MaxNameLen == 3

\* most file parts in the body of the earlier session
MaxEarlierParts == 1

\* ------------------------------------------------------------ small helpers
Min(a, b) == IF a < b THEN a ELSE b

Take(s, n) == SubSeq(s, 1, Min(n, Len(s)))

Drop(s, n) == SubSeq(s, Min(n, Len(s)) + 1, Len(s))

\* strings.HasPrefix(s, prefix)
HasPrefix(s, prefix) ==
    /\ Len(prefix) <= Len(s)
    /\ SubSeq(s, 1, Len(prefix)) = prefix

\* ------------------------------------------------------------------ errors
\* error values are named by their message text; Nil is the nil error
Nil == "nil"

ErrUnexpectedEOF == "unexpected EOF"
ErrNextPartUnexpectedEOF == "multipart: NextPart: unexpected EOF"
ErrNextPartEOF == "multipart: NextPart: EOF"
ErrBoundaryEmpty == "multipart: boundary is empty"
ErrMkdir == "creating directories: permission denied"
ErrCreate == "creating file: is a directory"
ErrWrite == "write: no space left on device"
ErrPutObjectBody == "operation error S3: PutObject, unexpected EOF"
ErrPutObject == "operation error S3: PutObject, service error"

\* errors.Is(err, io.ErrUnexpectedEOF): the sentinel itself or a %w wrapping of it
errorsIsUnexpectedEOF(err) == err \in {ErrUnexpectedEOF, ErrNextPartUnexpectedEOF}

\* strings.Contains(err.Error(), "unexpected EOF")
errorTextHasUnexpectedEOF(err) ==
    err \in {ErrUnexpectedEOF, ErrNextPartUnexpectedEOF, ErrPutObjectBody}

\* isUnexpectedEOF holding of every error
isUnexpectedEOF_AnyError(err) == err # Nil

\* isUnexpectedEOF holding of no error
isUnexpectedEOF_Never(err) == FALSE

\* the test of main.go:338 and main.go:371
isUnexpectedEOF(err) == errorsIsUnexpectedEOF(err) \/ errorTextHasUnexpectedEOF(err)

\* ------------------------------------------------------------- path/filepath
Sep == "/"

\* the elements of a path between separators, empty ones included
RECURSIVE SplitPath(_)
SplitPath(p) ==
    IF \A i \in 1..Len(p) : p[i] # Sep
    THEN <<p>>
    ELSE LET k == CHOOSE i \in 1..Len(p) :
                      /\ p[i] = Sep
                      /\ \A j \in 1..(i - 1) : p[j] # Sep
         IN <<SubSeq(p, 1, k - 1)>> \o SplitPath(SubSeq(p, k + 1, Len(p)))

\* elements joined by the separator
RECURSIVE JoinPath(_)
JoinPath(elems) ==
    IF elems = <<>> THEN <<>>
    ELSE IF Len(elems) = 1 THEN elems[1]
    ELSE elems[1] \o <<Sep>> \o JoinPath(Tail(elems))

Dot == <<".">>

DotDot == <<".", ".">>

\* the element loop of filepath.Clean: out is the cleaned prefix
RECURSIVE CleanElems(_, _, _)
CleanElems(elems, out, rooted) ==
    IF elems = <<>> THEN out
    ELSE LET e == Head(elems)
             rest == Tail(elems)
         IN IF e = <<>> \/ e = Dot
            THEN CleanElems(rest, out, rooted)
            ELSE IF e = DotDot
            THEN IF Len(out) > 0 /\ out[Len(out)] # DotDot
                 THEN CleanElems(rest, SubSeq(out, 1, Len(out) - 1), rooted)
                 ELSE IF rooted
                 THEN CleanElems(rest, out, rooted)
                 ELSE CleanElems(rest, Append(out, e), rooted)
            ELSE CleanElems(rest, Append(out, e), rooted)

\* filepath.Clean
Clean(p) ==
    IF p = <<>> THEN Dot
    ELSE LET rooted == p[1] = Sep
             body == JoinPath(CleanElems(SplitPath(p), <<>>, rooted))
         IN IF rooted THEN <<Sep>> \o body
            ELSE IF body = <<>> THEN Dot ELSE body

\* filepath.Join(a, b): empty elements are ignored, the result is cleaned
Join(a, b) ==
    IF a = <<>> /\ b = <<>> THEN <<>>
    ELSE IF a = <<>> THEN Clean(b)
    ELSE IF b = <<>> THEN Clean(a)
    ELSE Clean(a \o <<Sep>> \o b)

\* filepath.Dir
Dir(p) ==
    LET seps == {i \in 1..Len(p) : p[i] = Sep}
    IN IF seps = {} THEN Dot
       ELSE Clean(SubSeq(p, 1, CHOOSE i \in seps : \A j \in seps : j <= i))

\* filepath.Base: the last element, trailing separators dropped
Base(p) ==
    IF p = <<>> THEN Dot
    ELSE LET chars == {i \in 1..Len(p) : p[i] # Sep}
         IN IF chars = {} THEN <<Sep>>
            ELSE LET last == CHOOSE i \in chars : \A j \in chars : j <= i
                     seps == {i \in 1..last : p[i] = Sep}
                     start == IF seps = {} THEN 1
                              ELSE 1 + CHOOSE i \in seps : \A j \in seps : j <= i
                 IN SubSeq(p, start, last)

\* Part.FileName() of a part whose Content-Disposition declares filename
FileName(declared) == IF declared = <<>> THEN <<>> ELSE Base(declared)

\* ---------------------------------------------------------- sanitizeFilename
\* the characters strings.Map drops
Removed == {"/", "\\", ":"}

IsKept(r) == r \notin Removed

\* sanitizeFilename dropping the dots as well
sanitizeFilename_DropsDots(name) ==
    SelectSeq(name, LAMBDA r : IsKept(r) /\ r # ".")

\* sanitizeFilename leaving the slash in
sanitizeFilename_KeepsSlash(name) ==
    SelectSeq(name, LAMBDA r : IsKept(r) \/ r = "/")

\* main.go:393-400: strings.Map dropping '/', '\' and ':'
sanitizeFilename(name) == SelectSeq(name, IsKept)

\* ------------------------------------------------------------------- inputs
Methods == {"POST", "GET"}

\* Content-Type header values a client may send
ContentTypes ==
    { "",
      "text/plain",
      "multipart",
      "multipart/form-data",
      "multipart/form-data; boundary=X" }

\* mime.ParseMediaType: media type, the boundary parameter ("" when absent), error
ParseMediaType(v) ==
    CASE v = "" ->
           [mediaType |-> <<>>, boundary |-> <<>>, err |-> "mime: no media type"]
      [] v = "text/plain" ->
           [mediaType |-> <<"text", "/", "plain">>, boundary |-> <<>>, err |-> Nil]
      [] v = "multipart" ->
           [mediaType |-> <<"multipart">>, boundary |-> <<>>, err |-> Nil]
      [] v = "multipart/form-data" ->
           [mediaType |-> <<"multipart", "/", "form-data">>, boundary |-> <<>>, err |-> Nil]
      [] v = "multipart/form-data; boundary=X" ->
           [mediaType |-> <<"multipart", "/", "form-data">>, boundary |-> <<"X">>, err |-> Nil]

\* results of turnstile Verify: an error, or a response with its Success flag
VerifyResults ==
    { [err |-> TRUE, success |-> FALSE],
      [err |-> FALSE, success |-> FALSE],
      [err |-> FALSE, success |-> TRUE] }

\* values part.FileName() returns: "" for a form field, else the base name
\* of the declared filename (a single element, or "/" for an all-slash name)
FileNames ==
    { <<>>,
      <<"a">>,
      <<"a", "\\">>,
      <<"/">>,
      <<".", ".">> }

\* byte sequences a part may carry
DataSet == { <<1>>, <<2, 3>> }

Parts == [filename : FileNames, data : DataSet]

\* what one call of mr.NextPart() can return on a usable boundary
ReadResults ==
    {[kind |-> "part", part |-> p, err |-> Nil] : p \in Parts}
    \cup { [kind |-> "eof", part |-> [filename |-> <<>>, data |-> <<>>], err |-> "EOF"],
           [kind |-> "err", part |-> [filename |-> <<>>, data |-> <<>>],
            err |-> ErrNextPartUnexpectedEOF],
           [kind |-> "err", part |-> [filename |-> <<>>, data |-> <<>>],
            err |-> ErrNextPartEOF] }

\* faults the environment can inject into one SaveFile call
Faults(data) ==
    { [kind |-> "none", at |-> 0],
      [kind |-> "mkdir", at |-> 0],
      [kind |-> "create", at |-> 0] }
    \cup {[kind |-> "read", at |-> k] : k \in 0..Len(data)}
    \cup {[kind |-> "write", at |-> k] : k \in 0..(Len(data) - 1)}

\* ------------------------------------------------------------ local storage
\* LocalStorage.BasePath, the default "./uploads"
BasePath == <<".", "/", "uploads">>

\* io.Copy(f, data): src is what the reader still delivers, endErr what it
\* reports after that (Nil for io.EOF)
RECURSIVE ioCopy(_, _, _)
ioCopy(dst, src, endErr) ==
    IF src = <<>> THEN [dst |-> dst, err |-> endErr]
    ELSE ioCopy(dst \o Take(src, ChunkSize), Drop(src, ChunkSize), endErr)

\* the regular files after path holds content (os.Create, then the writes)
WriteFile(fs, path, content) ==
    [x \in (DOMAIN fs) \cup {path} |-> IF x = path THEN content ELSE fs[x]]

\* a cleaned path and the directories above it
PathAndParents(path) ==
    LET elems == SplitPath(path)
    IN {JoinPath(SubSeq(elems, 1, k)) : k \in 1..Len(elems)}

\* os.MkdirAll(path) refuses a path that runs through a regular file
MkdirAllFails(fs, path) == \E d \in PathAndParents(path) : d \in DOMAIN fs

\* os.Create(path) refuses a directory
CreateFails(directories, path) == path \in directories

\* the directories NewLocalStorage leaves behind: the working directory and
\* the base path
InitialDirs == {Dot} \cup PathAndParents(Clean(BasePath))

\* LocalStorage.SaveFile returning nil whatever io.Copy reported
LocalSaveFile_DropsCopyError(fs, ds, name, data, fault) ==
    LET fullPath == Join(BasePath, name)
        parent == Dir(Join(BasePath, name))
    IN IF fault.kind = "mkdir" \/ MkdirAllFails(fs, parent)
       THEN [files |-> fs, dirs |-> ds, err |-> ErrMkdir]
       ELSE IF fault.kind = "create" \/ CreateFails(ds \cup PathAndParents(parent), fullPath)
       THEN [files |-> fs, dirs |-> ds \cup PathAndParents(parent), err |-> ErrCreate]
       ELSE LET src == IF fault.kind \in {"read", "write"}
                       THEN Take(data, fault.at) ELSE data
                c == ioCopy(<<>>, src, Nil)
            IN [files |-> WriteFile(fs, fullPath, c.dst),
                dirs |-> ds \cup PathAndParents(parent),
                err |-> Nil]

\* LocalStorage.SaveFile(name, data) on regular files fs and directories ds
\* under an injected fault
LocalSaveFile(fs, ds, name, data, fault) ==
    LET fullPath == Join(BasePath, name)
        parent == Dir(Join(BasePath, name))
    IN IF fault.kind = "mkdir" \/ MkdirAllFails(fs, parent)
       THEN [files |-> fs, dirs |-> ds, err |-> ErrMkdir]
       ELSE IF fault.kind = "create" \/ CreateFails(ds \cup PathAndParents(parent), fullPath)
       THEN [files |-> fs, dirs |-> ds \cup PathAndParents(parent), err |-> ErrCreate]
       ELSE LET src == IF fault.kind \in {"read", "write"}
                       THEN Take(data, fault.at) ELSE data
                endErr == IF fault.kind = "read" THEN ErrUnexpectedEOF
                          ELSE IF fault.kind = "write" THEN ErrWrite ELSE Nil
                c == ioCopy(<<>>, src, endErr)
            IN [files |-> WriteFile(fs, fullPath, c.dst),
                dirs |-> ds \cup PathAndParents(parent),
                err |-> c.err]

\* --------------------------------------------------------------- S3Storage
\* NewS3Storage("go-upload", "uploads"): the Prefix field
S3Prefix == <<"uploads">>

\* strings.TrimPrefix(s.Prefix + "/" + name, "/")
s3Key(name) ==
    LET k == S3Prefix \o <<Sep>> \o name
    IN IF HasPrefix(k, <<Sep>>) THEN Tail(k) ELSE k

\* S3Storage.SaveFile(name, data) on the objects fs of the bucket: PutObject
\* stores the whole body under the key as given, or fails and stores nothing
S3SaveFile(fs, ds, name, data, fault) ==
    IF fault.kind = "none"
    THEN [files |-> WriteFile(fs, s3Key(name), data), dirs |-> ds, err |-> Nil]
    ELSE [files |-> fs, dirs |-> ds,
          err |-> IF fault.kind = "read" THEN ErrPutObjectBody ELSE ErrPutObject]

\* ----------------------------------------------------------------- Backend
\* the values of the BACKEND environment variable setupStorage accepts
Backends == {"local", "s3"}

\* where the backend b keeps what is saved under name
storagePath(b, name) ==
    IF b = "s3" THEN s3Key(name) ELSE Join(BasePath, name)

\* storage.SaveFile(name, data) through the Backend interface
storageSaveFile(b, fs, ds, name, data, fault) ==
    IF b = "s3" THEN S3SaveFile(fs, ds, name, data, fault)
    ELSE LocalSaveFile(fs, ds, name, data, fault)

\* -------------------------------------------------------------------- state
VARIABLES
    pc,             \* where the handler is: idle, method, ctype, captcha, session,
                    \* loop, next, save, classify, done
    req,            \* the request being handled
    ctxDone,        \* ctx.Done() is closed
    boundary,       \* params["boundary"]
    verifyCalls,    \* calls of ts.Verify so far
    verifyResult,   \* what ts.Verify returned
    saved,
    failed,
    lastError,
    subfolder,
    part,           \* the part being saved
    nextPartCalls,  \* calls of mr.NextPart so far
    ueofReads,      \* calls of mr.NextPart that returned an unexpected-EOF error
    lastRead,       \* what the latest call of mr.NextPart returned
    late,           \* what happened once ctx was done: reads and saves begun,
                    \* and whether ctx was done when the loop was left
    bodyReads,      \* of these, the ones that read from r.Body
    fileParts,      \* parts with a non-empty FileName() returned so far
    saveCalls,      \* calls of storage.SaveFile so far
    files,          \* the storage: full path of a regular file -> content
    dirs,           \* the storage: full paths of the directories
    loopExit,       \* how the loop was left: eof, abort, deadline
    responses,      \* responses written to w
    backend,        \* the storage backend setupStorage selected
    first,          \* an earlier session: its identifier and the storage it left
    nameCall        \* one filename on its way through the sanitizer

\* the variables of one run of uploadHandler, and the storage
sessionVars ==
    << pc, req, ctxDone, boundary, verifyCalls, verifyResult, saved, failed,
       lastError, subfolder, part, nextPartCalls, bodyReads, ueofReads,
       lastRead, late, fileParts, saveCalls, files, dirs, loopExit,
       responses >>

vars == << sessionVars, backend, first, nameCall >>

NoPart == [filename |-> <<>>, data |-> <<>>]

NoVerify == [err |-> FALSE, success |-> FALSE]

NoLate == [reads |-> 0, saves |-> 0, atExit |-> FALSE]

NoFirst == [sub |-> <<>>, files |-> <<>>]

NoCall == [step |-> "none", input |-> <<>>, output |-> <<>>, sub |-> <<>>, name |-> <<>>]

\* the handler's variables before a request, on an empty storage
SessionInit ==
    /\ pc = "idle"
    /\ req = [method |-> "", contentType |-> ""]
    /\ ctxDone = FALSE
    /\ boundary = <<>>
    /\ verifyCalls = 0
    /\ verifyResult = NoVerify
    /\ saved = 0
    /\ failed = 0
    /\ lastError = Nil
    /\ subfolder = <<>>
    /\ part = NoPart
    /\ nextPartCalls = 0
    /\ ueofReads = 0
    /\ lastRead = "none"
    /\ late = NoLate
    /\ bodyReads = 0
    /\ fileParts = 0
    /\ saveCalls = 0
    /\ files = <<>>
    /\ dirs = InitialDirs
    /\ loopExit = "none"
    /\ responses = <<>>

\* the server started with BACKEND unset or "local"
Init ==
    /\ SessionInit
    /\ backend = "local"
    /\ first = NoFirst
    /\ nameCall = NoCall

\* http.Error(w, msg, code)
httpError(msg, code) == [status |-> code, fmt |-> msg, args |-> <<>>]

\* w.WriteHeader(code); w.Write(fmt.Sprintf(format, args...))
writeResponse(code, format, args) == [status |-> code, fmt |-> format, args |-> args]

\* ------------------------------------------------------------ uploadHandler
\* the server dispatches a request to uploadHandler
Receive ==
    /\ pc = "idle"
    /\ \E m \in Methods, ct \in ContentTypes :
           req' = [method |-> m, contentType |-> ct]
    /\ pc' = "method"
    /\ UNCHANGED << ctxDone, boundary, verifyCalls, verifyResult, saved,
                    failed, lastError, subfolder, part, nextPartCalls,
                    bodyReads, ueofReads, lastRead, backend, first, nameCall,
                    fileParts, saveCalls, files, dirs, loopExit, responses,
                    late >>

\* methodRejected letting GET through as well
methodRejected_GetAllowed(r) == r.method \notin {"POST", "GET"}

\* r.Method != http.MethodPost
methodRejected(r) == r.method # "POST"

\* main.go:277-285: the method test, then the 4-minute context
CheckMethod ==
    /\ pc = "method"
    /\ IF methodRejected(req)
       THEN /\ responses' = Append(responses,
                                   httpError("Only POST allowed", 405))
            /\ pc' = "done"
       ELSE /\ pc' = "ctype"
            /\ UNCHANGED responses
    /\ UNCHANGED << req, ctxDone, boundary, verifyCalls, verifyResult, saved,
                    failed, lastError, subfolder, part, nextPartCalls,
                    bodyReads, ueofReads, lastRead, backend, first, nameCall,
                    fileParts, saveCalls, files, dirs, loopExit, late >>

\* contentTypeRejected without the media type test
contentTypeRejected_ErrOnly(parsed) == parsed.err # Nil

\* err != nil || !strings.HasPrefix(mediaType, "multipart/")
contentTypeRejected(parsed) ==
    \/ parsed.err # Nil
    \/ ~HasPrefix(parsed.mediaType, <<"multipart", "/">>)

\* main.go:287-292
CheckContentType ==
    /\ pc = "ctype"
    /\ LET parsed == ParseMediaType(req.contentType)
       IN IF contentTypeRejected(parsed)
          THEN /\ responses' = Append(responses,
                                      httpError("Invalid Content-Type", 400))
               /\ pc' = "done"
               /\ UNCHANGED boundary
          ELSE /\ boundary' = parsed.boundary
               /\ pc' = "captcha"
               /\ UNCHANGED responses
    /\ UNCHANGED << req, ctxDone, verifyCalls, verifyResult, saved, failed,
                    lastError, subfolder, part, nextPartCalls, bodyReads,
                    ueofReads, lastRead, backend, first, nameCall, fileParts,
                    saveCalls, files, dirs, loopExit, late >>

\* captchaFailed with the Success flag ignored
captchaFailed_ErrOnly(res) == res.err

\* captchaFailed with && in place of ||
captchaFailed_And(res) == res.err /\ ~res.success

\* err != nil || !resp.Success
captchaFailed(res) == res.err \/ ~res.success

\* main.go:294-300
VerifyCaptcha ==
    /\ pc = "captcha"
    /\ \E res \in VerifyResults :
           /\ verifyResult' = res
           /\ verifyCalls' = verifyCalls + 1
           /\ IF captchaFailed(res)
              THEN /\ responses' = Append(responses,
                                          httpError("CAPTCHA verification failed", 403))
                   /\ pc' = "done"
              ELSE /\ pc' = "session"
                   /\ UNCHANGED responses
    /\ UNCHANGED << req, ctxDone, boundary, saved, failed, lastError,
                    subfolder, part, nextPartCalls, bodyReads, ueofReads,
                    lastRead, backend, first, nameCall, fileParts, saveCalls,
                    files, dirs, loopExit, late >>

\* now.Format("2006-01-02_15-04-05.000"): the time cut to the millisecond, one
\* path element without separators
Format(now) == <<"T" \o ToString(now \div TicksPerMs)>>

\* main.go:302-310
StartSession ==
    /\ pc = "session"
    /\ saved' = 0
    /\ failed' = 0
    /\ lastError' = Nil
    /\ \E now \in 0..MaxNow : subfolder' = Format(now)
    /\ pc' = "loop"
    /\ UNCHANGED << req, ctxDone, boundary, verifyCalls, verifyResult, part,
                    nextPartCalls, bodyReads, ueofReads, lastRead, backend,
                    first, nameCall, fileParts, saveCalls, files, dirs,
                    loopExit, responses, late >>

\* deadlineResponse with the partial branch taken on the failed count
deadlineResponse_OnFailed(nSaved, nFailed) ==
    IF nFailed > 0
    THEN writeResponse(206,
             "Upload partially completed: %d file(s) uploaded, %d failed due to timeout",
             <<nSaved, nFailed>>)
    ELSE httpError("Upload timed out", 408)

\* deadlineResponse answering 408 whatever was saved
deadlineResponse_AlwaysTimeout(nSaved, nFailed) == httpError("Upload timed out", 408)

\* the response of the ctx.Done() branch, main.go:317-323
deadlineResponse(nSaved, nFailed) ==
    IF nSaved > 0
    THEN writeResponse(206,
             "Upload partially completed: %d file(s) uploaded, %d failed due to timeout",
             <<nSaved, nFailed>>)
    ELSE httpError("Upload timed out", 408)

\* a select that never takes the ctx.Done() case
deadlineReached_Never(done) == FALSE

\* main.go:314-315: select takes case <-ctx.Done() when the channel is closed
deadlineReached(done) == done

\* main.go:312-326: the select at the top of each iteration
CheckDeadline ==
    /\ pc = "loop"
    /\ IF deadlineReached(ctxDone)
       THEN /\ responses' = Append(responses, deadlineResponse(saved, failed))
            /\ loopExit' = "deadline"
            /\ pc' = "done"
            /\ late' = [late EXCEPT !.atExit = ctxDone]
       ELSE /\ pc' = "next"
            /\ UNCHANGED << responses, loopExit, late >>
    /\ UNCHANGED << req, ctxDone, boundary, verifyCalls, verifyResult, saved,
                    failed, lastError, subfolder, part, nextPartCalls,
                    bodyReads, ueofReads, lastRead, backend, first, nameCall,
                    fileParts, saveCalls, files, dirs >>

\* what mr.NextPart() may return now: an empty boundary is refused before the
\* body is touched; a body yields at most MaxReads results before it ends
nextPartResults ==
    IF boundary = <<>>
    THEN { [kind |-> "err", part |-> NoPart, err |-> ErrBoundaryEmpty] }
    ELSE IF nextPartCalls < MaxReads
    THEN ReadResults
    ELSE { r \in ReadResults : r.kind = "eof" \/ r.err = ErrNextPartEOF }

\* what a call of mr.NextPart returned: a file part, a form field, the end of
\* the body, or its error
readOutcome(r) ==
    IF r.kind = "part"
    THEN IF r.part.filename = <<>> THEN "field" ELSE "file"
    ELSE IF r.kind = "eof" THEN "eof" ELSE r.err

\* isFormField treating every part as a file part
isFormField_Never(p) == FALSE

\* main.go:350: part.FileName() == ""
isFormField(p) == p.filename = <<>>

\* main.go:328-352: one NextPart call and the handling of its result
NextPart ==
    /\ pc = "next"
    /\ nextPartCalls' = nextPartCalls + 1
    /\ bodyReads' = IF boundary = <<>> THEN bodyReads ELSE bodyReads + 1
    /\ \E r \in nextPartResults :
         /\ lastRead' = readOutcome(r)
         /\ ueofReads' = IF readOutcome(r) = ErrNextPartUnexpectedEOF
                         THEN ueofReads + 1 ELSE ueofReads
         /\ fileParts' = IF readOutcome(r) = "file"
                         THEN fileParts + 1 ELSE fileParts
         /\ IF r.kind = "eof"
            THEN /\ loopExit' = "eof"
                 /\ pc' = "classify"
                 /\ UNCHANGED << lastError, failed, part >>
            ELSE IF r.kind = "err"
            THEN /\ lastError' = r.err
                 /\ IF isUnexpectedEOF(r.err)
                    THEN /\ failed' = failed + 1
                         /\ pc' = "loop"
                         /\ UNCHANGED loopExit
                    ELSE /\ loopExit' = "abort"
                         /\ pc' = "classify"
                         /\ UNCHANGED failed
                 /\ UNCHANGED part
            ELSE /\ IF isFormField(r.part)
                    THEN /\ pc' = "loop"
                         /\ UNCHANGED part
                    ELSE /\ part' = r.part
                         /\ pc' = "save"
                 /\ UNCHANGED << lastError, failed, loopExit >>
    /\ late' = [late EXCEPT !.reads = IF ctxDone THEN @ + 1 ELSE @,
                             !.atExit = ctxDone /\ pc' = "classify"]
    /\ UNCHANGED << req, ctxDone, boundary, verifyCalls, verifyResult, saved,
                    subfolder, saveCalls, files, dirs, responses, backend,
                    first, nameCall >>

\* storageName without the session folder in front
storageName_NoSubfolder(sub, fname) == sanitizeFilename(fname)

\* main.go:354: the name handed to the backend
storageName(sub, fname) == Join(sub, sanitizeFilename(fname))

\* afterSave leaving the loop on a save error
afterSave_BreakOnError(err) == IF err # Nil THEN "classify" ELSE "loop"

\* afterSave calling the storage again after a save error
afterSave_Retry(err) == IF err # Nil THEN "save" ELSE "loop"

\* where the loop goes after SaveFile returned err: `continue` on an error
\* (main.go:361) and the end of the loop body otherwise both lead to its top
afterSave(err) == "loop"

\* main.go:354-364: save the current part and count the outcome
SaveFile ==
    /\ pc = "save"
    /\ \E fault \in Faults(part.data) :
         LET filename == storageName(subfolder, part.filename)
             r == storageSaveFile(backend, files, dirs, filename, part.data, fault)
         IN /\ files' = r.files
            /\ dirs' = r.dirs
            /\ saveCalls' = saveCalls + 1
            /\ IF r.err # Nil
               THEN /\ failed' = failed + 1
                    /\ lastError' = r.err
                    /\ UNCHANGED saved
               ELSE /\ saved' = saved + 1
                    /\ UNCHANGED << failed, lastError >>
            /\ pc' = afterSave(r.err)
    /\ part' = NoPart
    /\ late' = [late EXCEPT !.saves = IF ctxDone THEN @ + 1 ELSE @]
    /\ UNCHANGED << req, ctxDone, boundary, verifyCalls, verifyResult,
                    subfolder, nextPartCalls, bodyReads, ueofReads, lastRead,
                    backend, first, nameCall, fileParts, loopExit, responses >>

\* finalResponse with the partial branch taken on a recorded error instead of
\* on the failed count
finalResponse_PartialOnError(nSaved, nFailed, err) ==
    IF nSaved = 0
    THEN IF err # Nil
         THEN IF isUnexpectedEOF(err)
              THEN httpError("Upload failed due to connection issues. Please check your internet connection and try again.", 400)
              ELSE [status |-> 400, fmt |-> "Upload failed: %v", args |-> <<err>>]
         ELSE httpError("No files uploaded", 400)
    ELSE IF err # Nil
    THEN writeResponse(206, "Partially successful: %d file(s) uploaded, %d failed",
                       <<nSaved, nFailed>>)
    ELSE writeResponse(201, "Uploaded %d file(s)", <<nSaved>>)

\* finalResponse with the saved == 0 branch split on the failed count instead
\* of on the recorded error
finalResponse_SplitOnFailed(nSaved, nFailed, err) ==
    IF nSaved = 0
    THEN IF nFailed > 0
         THEN IF isUnexpectedEOF(err)
              THEN httpError("Upload failed due to connection issues. Please check your internet connection and try again.", 400)
              ELSE [status |-> 400, fmt |-> "Upload failed: %v", args |-> <<err>>]
         ELSE httpError("No files uploaded", 400)
    ELSE IF nFailed > 0
    THEN writeResponse(206, "Partially successful: %d file(s) uploaded, %d failed",
                       <<nSaved, nFailed>>)
    ELSE writeResponse(201, "Uploaded %d file(s)", <<nSaved>>)

\* main.go:369-390: the response after the loop
finalResponse(nSaved, nFailed, err) ==
    IF nSaved = 0
    THEN IF err # Nil
         THEN IF isUnexpectedEOF(err)
              THEN httpError("Upload failed due to connection issues. Please check your internet connection and try again.", 400)
              ELSE [status |-> 400, fmt |-> "Upload failed: %v", args |-> <<err>>]
         ELSE httpError("No files uploaded", 400)
    ELSE IF nFailed > 0
    THEN writeResponse(206, "Partially successful: %d file(s) uploaded, %d failed",
                       <<nSaved, nFailed>>)
    ELSE writeResponse(201, "Uploaded %d file(s)", <<nSaved>>)

\* main.go:367-391
Classify ==
    /\ pc = "classify"
    /\ responses' = Append(responses, finalResponse(saved, failed, lastError))
    /\ pc' = "done"
    /\ UNCHANGED << req, ctxDone, boundary, verifyCalls, verifyResult, saved,
                    failed, lastError, subfolder, part, nextPartCalls,
                    bodyReads, ueofReads, lastRead, backend, first, nameCall,
                    fileParts, saveCalls, files, dirs, loopExit, late >>

\* the 4-minute deadline of main.go:283 passes, or the request is cancelled
Timeout ==
    /\ pc \in {"ctype", "captcha", "session", "loop", "next", "save", "classify"}
    /\ ~ctxDone
    /\ ctxDone' = TRUE
    /\ UNCHANGED << pc, req, boundary, verifyCalls, verifyResult, saved,
                    failed, lastError, subfolder, part, nextPartCalls,
                    bodyReads, ueofReads, lastRead, backend, first, nameCall,
                    fileParts, saveCalls, files, dirs, loopExit, responses,
                    late >>

Next ==
    \/ Receive
    \/ CheckMethod
    \/ CheckContentType
    \/ VerifyCaptcha
    \/ StartSession
    \/ CheckDeadline
    \/ NextPart
    \/ SaveFile
    \/ Classify
    \/ Timeout

Spec == Init /\ [][Next]_vars

\* ------------------------------------------------- a body that keeps failing
\* main.go:328-341 once MaxReads results have been read from a broken
\* connection: the body's read error is sticky, so mr.NextPart returns the
\* unexpected-EOF error again and the handler goes round again. The counters
\* stand still at the bound.
SpinRead ==
    /\ pc = "next"
    /\ boundary # <<>>
    /\ nextPartCalls >= MaxReads
    /\ isUnexpectedEOF(ErrNextPartUnexpectedEOF)
    /\ lastRead' = ErrNextPartUnexpectedEOF
    /\ lastError' = ErrNextPartUnexpectedEOF
    /\ pc' = "loop"
    /\ UNCHANGED << req, ctxDone, verifyCalls, verifyResult, saved, failed,
                    subfolder, part, nextPartCalls, bodyReads, ueofReads,
                    fileParts, saveCalls, files, dirs, loopExit, responses,
                    boundary, backend, first, nameCall, late >>

\* the steps of the handler goroutine between its calls of storage.SaveFile
HandlerStep ==
    \/ CheckMethod
    \/ CheckContentType
    \/ VerifyCaptcha
    \/ StartSession
    \/ CheckDeadline
    \/ NextPart
    \/ Classify
    \/ SpinRead

\* the call of storage.SaveFile returns: under Next only a SaveFile step
\* leaves pc = "save", and one is possible whenever pc = "save"
SaveReturns == pc = "save" /\ pc' = "loop"

NextLive ==
    \/ Next
    \/ SpinRead

\* the handler goroutine keeps running and every call it makes returns; the
\* timer of context.WithTimeout fires
SpecLive ==
    /\ Init
    /\ [][NextLive]_vars
    /\ WF_vars(HandlerStep)
    /\ WF_pc(SaveReturns)
    /\ WF_vars(Timeout)

\* ------------------------------------------------------ an earlier session
\* the file parts of the earlier request's body
EarlierBodies ==
    UNION {[1..n -> {p \in Parts : p.filename # <<>>}] : n \in 1..MaxEarlierParts}

\* the storage after main.go:354-357 has run for each part in turn, no save
\* meeting an I/O fault
RECURSIVE saveAll(_, _, _, _, _)
saveAll(b, fs, ds, sub, parts) ==
    IF parts = <<>> THEN [files |-> fs, dirs |-> ds]
    ELSE LET r == storageSaveFile(b, fs, ds, storageName(sub, Head(parts).filename),
                                  Head(parts).data, [kind |-> "none", at |-> 0])
         IN saveAll(b, r.files, r.dirs, sub, Tail(parts))

\* a whole run of uploadHandler before the one followed step by step: a
\* request that passed the checks, under its own session identifier, read to
\* the end of its body; what it leaves is the storage
EarlierSession ==
    /\ pc = "idle"
    /\ first = NoFirst
    /\ \E now \in 0..MaxNow, body \in EarlierBodies :
         LET r == saveAll(backend, files, dirs, Format(now), body)
         IN /\ files' = r.files
            /\ dirs' = r.dirs
            /\ first' = [sub |-> Format(now), files |-> r.files]
    /\ UNCHANGED << pc, req, ctxDone, boundary, verifyCalls, verifyResult,
                    saved, failed, lastError, subfolder, part, nextPartCalls,
                    bodyReads, ueofReads, lastRead, fileParts, saveCalls,
                    loopExit, responses, backend, nameCall, late >>

\* the server started with either backend
InitReissue ==
    /\ SessionInit
    /\ backend \in Backends
    /\ first = NoFirst
    /\ nameCall = NoCall

NextReissue ==
    \/ Next
    \/ EarlierSession

SpecReissue == InitReissue /\ [][NextReissue]_vars

\* -------------------------------------------------- concurrent sessions
\* the server runs one uploadHandler per request (main.go:207, 222); a second
\* handler works on the same storage while the first is followed step by
\* step. Of the second only what reaches the storage is kept: its session
\* identifier and the files it wrote, in first.
MaxPeerSaves == 1

\* a filename that main.go:354 turns into a name below the session folder:
\* its sanitized form is neither empty nor '.' nor '..'
ProperFilename(fname) ==
    sanitizeFilename(fname) \notin {<<>>, <<".">>, <<".", ".">>}

\* main.go:307-308 in the other handler: it reads the clock for its own
\* session identifier
PeerStarts ==
    /\ first = NoFirst
    /\ \E now \in 0..MaxNow : first' = [sub |-> Format(now), files |-> <<>>]
    /\ UNCHANGED << sessionVars, backend, nameCall >>

\* main.go:354-363 in the other handler: one file part with an ordinary
\* filename saved, without an I/O fault
PeerSaves ==
    /\ first.sub # <<>>
    /\ Cardinality(DOMAIN first.files) < MaxPeerSaves
    /\ \E p \in {q \in Parts : ProperFilename(q.filename)} :
         LET name == storageName(first.sub, p.filename)
             r == storageSaveFile(backend, files, dirs, name, p.data,
                                  [kind |-> "none", at |-> 0])
         IN /\ files' = r.files
            /\ dirs' = r.dirs
            /\ first' = IF r.err = Nil
                        THEN [first EXCEPT !.files = WriteFile(@, storagePath(backend, name), p.data)]
                        ELSE first
    /\ UNCHANGED << pc, req, ctxDone, boundary, verifyCalls, verifyResult,
                    saved, failed, lastError, subfolder, part, nextPartCalls,
                    bodyReads, ueofReads, lastRead, fileParts, saveCalls,
                    loopExit, responses, backend, nameCall, late >>

NextPeers ==
    \/ Next
    \/ PeerStarts
    \/ PeerSaves

SpecPeers == Init /\ [][NextPeers]_vars

\* ------------------------------------------------- filenames, one at a time
\* the characters filenames are made of: one ordinary character, the dot and
\* the three characters sanitizeFilename drops
NameChars == {"a", ".", "/", "\\", ":"}

\* the strings of at most MaxNameLen characters
Names == UNION {[1..n -> NameChars] : n \in 0..MaxNameLen}

\* the values subfolder can take
SessionIds == {Format(now) : now \in 0..MaxNow}

\* a filename is about to be used; no request is being handled
InitNames ==
    /\ SessionInit
    /\ backend = "local"
    /\ first = NoFirst
    /\ \E n \in Names : nameCall = [NoCall EXCEPT !.step = "input", !.input = n]

\* sanitizeFilename(input), as TestSanitizeFilename calls it
SanitizeCall ==
    /\ nameCall.step = "input"
    /\ nameCall' = [nameCall EXCEPT !.step = "sanitized",
                                     !.output = sanitizeFilename(nameCall.input)]
    /\ UNCHANGED << sessionVars, backend, first >>

\* main.go:350-354 for a part declaring input as its filename, in a session
\* with any identifier: the part is skipped or its storage name is built
NamePart ==
    /\ nameCall.step = "input"
    /\ \E sub \in SessionIds :
         LET fname == FileName(nameCall.input)
         IN nameCall' =
                IF isFormField([filename |-> fname])
                THEN [nameCall EXCEPT !.step = "skipped", !.sub = sub]
                ELSE [nameCall EXCEPT !.step = "named",
                                      !.sub = sub,
                                      !.output = sanitizeFilename(fname),
                                      !.name = storageName(sub, fname)]
    /\ UNCHANGED << sessionVars, backend, first >>

NextNames ==
    \/ SanitizeCall
    \/ NamePart

SpecNames == InitNames /\ [][NextNames]_vars

\* ------------------------------------------------------------------- claims
\* the response the client got
response == responses[Len(responses)]

ConnectionIssueMsg ==
    "Upload failed due to connection issues. Please check your internet connection and try again."

\* the loop was left by end-of-stream or by an aborting read error
NormalExit == pc = "done" /\ loopExit \in {"eof", "abort"}

\* C1: a session that passed CAPTCHA and left the loop without the deadline
\* branch, with saved > 0, answers 201 exactly when failed = 0 and 206 exactly
\* when failed > 0, and the body carries the final saved (and failed) counts.
C1_SavedStatus ==
    (NormalExit /\ saved > 0) =>
        /\ Len(responses) = 1
        /\ (response.status = 201) <=> (failed = 0)
        /\ (response.status = 206) <=> (failed > 0)
        /\ failed = 0 =>
              /\ response.fmt = "Uploaded %d file(s)"
              /\ response.args = <<saved>>
        /\ failed > 0 =>
              /\ response.fmt = "Partially successful: %d file(s) uploaded, %d failed"
              /\ response.args = <<saved, failed>>

C1_Witness ==
    /\ NormalExit
    /\ saved = 1
    /\ failed = 1
    /\ response.status = 206
    /\ response.args = <<1, 1>>

\* C2: a session that passed CAPTCHA and left the loop without the deadline
\* branch, with saved = 0, answers 400; the body is "No files uploaded"
\* exactly when failed = 0 and no error was recorded, the connection-issue
\* message exactly when the last error is an unexpected-EOF condition, and
\* "Upload failed: <error>" for any other last error.
C2_NothingSaved ==
    (NormalExit /\ saved = 0) =>
        /\ Len(responses) = 1
        /\ response.status = 400
        /\ (response.fmt = "No files uploaded") <=> (failed = 0 /\ lastError = Nil)
        /\ (response.fmt = ConnectionIssueMsg)
               <=> (lastError \in {ErrUnexpectedEOF, ErrNextPartUnexpectedEOF})
        /\ (lastError \notin {Nil, ErrUnexpectedEOF, ErrNextPartUnexpectedEOF}) =>
               /\ response.fmt = "Upload failed: %v"
               /\ response.args = <<lastError>>

C2_Witness ==
    /\ NormalExit
    /\ loopExit = "eof"
    /\ saved = 0
    /\ fileParts = 0
    /\ nextPartCalls = 2
    /\ response.status = 400
    /\ response.fmt = "No files uploaded"

\* C3: when the check at the top of an iteration finds the deadline elapsed,
\* the handler returns at once: no further NextPart call, no further SaveFile
\* call, response 206 if saved > 0 and 408 if saved = 0; if that happens before
\* the first part is read the response is 408 and the backend was never called.
C3_DeadlineStops ==
    [][ (pc = "loop" /\ ctxDone) =>
            /\ pc' = "done"
            /\ nextPartCalls' = nextPartCalls
            /\ saveCalls' = saveCalls
            /\ files' = files
            /\ Len(responses') = 1
            /\ responses'[1].status = IF saved > 0 THEN 206 ELSE 408
            /\ nextPartCalls = 0 =>
                   /\ responses'[1].status = 408
                   /\ saveCalls' = 0
                   /\ files' = <<>> ]_vars

C3_Witness ==
    /\ pc = "done"
    /\ loopExit = "deadline"
    /\ saved > 0
    /\ response.status = 206

\* C4: if CAPTCHA verification returns an error or success=false, the handler
\* answers 403 and the session makes no SaveFile call and reads no part.
C4_CaptchaFailure ==
    (verifyCalls > 0 /\ (verifyResult.err \/ ~verifyResult.success)) =>
        /\ pc = "done"
        /\ Len(responses) = 1
        /\ response.status = 403
        /\ response.fmt = "CAPTCHA verification failed"
        /\ saveCalls = 0
        /\ nextPartCalls = 0
        /\ bodyReads = 0
        /\ files = <<>>

C4_Witness ==
    /\ pc = "done"
    /\ verifyCalls = 1
    /\ ~verifyResult.err
    /\ ~verifyResult.success
    /\ response.status = 403

\* the request passed the method and Content-Type validation of main.go:277-292
PassesValidation ==
    /\ req.method = "POST"
    /\ req.contentType \in {"multipart/form-data", "multipart/form-data; boundary=X"}

\* C5: the CAPTCHA verifier is called at most once per session, exactly once
\* for a request that passes method and Content-Type validation, and every
\* SaveFile call happens after that one verification returned success.
C5_VerifyOnce ==
    /\ verifyCalls <= 1
    /\ (pc = "done" /\ PassesValidation) => verifyCalls = 1
    /\ (saveCalls > 0 \/ pc = "save") =>
           /\ verifyCalls = 1
           /\ ~verifyResult.err
           /\ verifyResult.success

C5_Witness ==
    /\ pc = "done"
    /\ PassesValidation
    /\ verifyCalls = 1
    /\ saveCalls = 2

\* C6: a request whose method is not POST gets 405 "Only POST allowed",
\* whatever its headers, with no CAPTCHA call, no body read, no storage call.
C6_MethodNotAllowed ==
    (pc # "idle" /\ req.method # "POST") =>
        /\ verifyCalls = 0
        /\ nextPartCalls = 0
        /\ bodyReads = 0
        /\ saveCalls = 0
        /\ files = <<>>
        /\ \/ pc = "method" /\ responses = <<>>
           \/ /\ pc = "done"
              /\ responses = << [status |-> 405, fmt |-> "Only POST allowed",
                                 args |-> <<>>] >>

C6_Witness ==
    /\ pc = "done"
    /\ req.method = "GET"
    /\ req.contentType = "multipart/form-data; boundary=X"
    /\ response.status = 405

\* C7: a POST whose Content-Type does not parse or is not a multipart media
\* type gets 400 "Invalid Content-Type", with no CAPTCHA call, no body read
\* and no storage call before (or after) that response.
C7_InvalidContentType ==
    (req.method = "POST" /\ req.contentType \in {"", "text/plain", "multipart"}) =>
        /\ verifyCalls = 0
        /\ nextPartCalls = 0
        /\ bodyReads = 0
        /\ saveCalls = 0
        /\ files = <<>>
        /\ \/ pc \in {"method", "ctype"} /\ responses = <<>>
           \/ /\ pc = "done"
              /\ responses = << [status |-> 400, fmt |-> "Invalid Content-Type",
                                 args |-> <<>>] >>

C7_Witness ==
    /\ pc = "done"
    /\ req.method = "POST"
    /\ req.contentType = "text/plain"
    /\ response.status = 400

\* a POST with a multipart Content-Type that carries no boundary parameter
NoBoundaryRequest ==
    /\ req.method = "POST"
    /\ req.contentType = "multipart/form-data"

\* C8 as stated: a POST with a multipart Content-Type but no usable boundary
\* is rejected before any CAPTCHA verification call and before any body read.
C8_RejectedBeforeCaptcha ==
    NoBoundaryRequest =>
        /\ verifyCalls = 0
        /\ bodyReads = 0

\* C8 amended: such a request is rejected without any body read and without
\* any storage call, but only after the one CAPTCHA verification call: 403 if
\* verification fails, otherwise the first NextPart call reports the empty
\* boundary and the response is 400 "Upload failed: <that error>" (408 if the
\* deadline had passed at the first check of the loop).
C8_RejectedAfterCaptcha ==
    NoBoundaryRequest =>
        /\ bodyReads = 0
        /\ nextPartCalls <= 1
        /\ saveCalls = 0
        /\ files = <<>>
        /\ pc = "done" =>
              /\ verifyCalls = 1
              /\ Len(responses) = 1
              /\ IF verifyResult.err \/ ~verifyResult.success
                 THEN response.status = 403
                 ELSE IF loopExit = "deadline"
                 THEN response.status = 408 /\ nextPartCalls = 0
                 ELSE /\ loopExit = "abort"
                      /\ nextPartCalls = 1
                      /\ response.status = 400
                      /\ response.fmt = "Upload failed: %v"
                      /\ response.args = <<ErrBoundaryEmpty>>

C8_Witness ==
    /\ NoBoundaryRequest
    /\ pc = "done"
    /\ verifyCalls = 1
    /\ nextPartCalls = 1
    /\ bodyReads = 0
    /\ response.status = 400
    /\ response.args = <<ErrBoundaryEmpty>>

\* every part with a filename returned so far has had its SaveFile call
C9_EveryFilePartAttempted ==
    /\ pc \in {"loop", "next", "classify", "done"} => saveCalls = fileParts
    /\ pc = "save" => saveCalls + 1 = fileParts
    /\ (pc \in {"classify", "done"} /\ subfolder # <<>>) =>
           loopExit \in {"eof", "abort", "deadline"}
    /\ (pc = "done" /\ loopExit = "eof" /\ fileParts = 2 /\ saved = 1 /\ failed = 1) =>
           /\ response.status = 206
           /\ response.args = <<1, 1>>

\* the step in which SaveFile returns an error
C9_FailedSaveStep ==
    (pc = "save" /\ pc' # "save" /\ saved' = saved) =>
        /\ failed' = failed + 1
        /\ pc' = "loop"
        /\ responses' = responses
        /\ loopExit' = loopExit

\* whatever failed before, an iteration that starts before the deadline
\* asks the reader for the next part
C9_LoopGoesOn ==
    /\ (pc = "loop" /\ ~ctxDone /\ pc' # "loop") => pc' = "next"
    /\ (pc = "next" /\ pc' # "next") => nextPartCalls' = nextPartCalls + 1

\* C9: a save failure on one file part does not end the session: failed grows
\* by one, saved stays, the loop goes on to its next iteration, and every
\* part with a filename the reader yields is attempted; two file parts with
\* the first saved and the second failed give 206 with saved=1, failed=1.
C9_SaveFailureContinues ==
    /\ []C9_EveryFilePartAttempted
    /\ [][C9_FailedSaveStep /\ C9_LoopGoesOn]_vars

C9_Witness ==
    /\ pc = "done"
    /\ loopExit = "eof"
    /\ fileParts = 2
    /\ nextPartCalls = 3
    /\ saved = 1
    /\ failed = 1
    /\ lastError = ErrCreate
    /\ response.status = 206

\* C10: for every part counted as saved, the bytes the backend stored under
\* that part's name are the part's bytes exactly.
C10_SavedBytesExact ==
    [][ (pc = "save" /\ saved' = saved + 1) =>
            LET fullPath == Join(BasePath, storageName(subfolder, part.filename))
            IN /\ fullPath \in DOMAIN files'
               /\ files'[fullPath] = part.data ]_vars

C10_Witness ==
    /\ saved = 1
    /\ failed = 0
    /\ pc = "loop"
    /\ \E path \in DOMAIN files : files[path] = <<2, 3>>

\* ---------------------------------------------------------------- C11
\* C11 as stated: in every reachable state, saved + failed is at most the
\* number of parts with a non-empty filename the reader has yielded so far,
\* unexpected-EOF read errors included.
C11_CountsWithinFileParts == saved + failed <= fileParts

\* C11 as amended: saved is at most the number of file-named parts yielded,
\* and saved + failed is at most that number plus the number of reads that
\* ended in an unexpected-EOF error; the two sides are equal whenever no save
\* is pending.
C11_CountsWithinPartsAndReadErrors ==
    /\ saved <= fileParts
    /\ saved + failed <= fileParts + ueofReads
    /\ pc # "save" => saved + failed = fileParts + ueofReads

\* a read ended in an unexpected-EOF error before any file part was yielded,
\* and a part was saved after it
C11_Witness ==
    /\ pc = "done"
    /\ ueofReads = 1
    /\ fileParts = 1
    /\ saved = 1
    /\ failed = 1

\* ---------------------------------------------------------------- C17
\* every save call made so far was for a part with a non-empty filename
C17_NoSaveForFields ==
    saveCalls + (IF pc = "save" THEN 1 ELSE 0) = fileParts

\* the step in which the reader yields a part with an empty filename
C17_FieldStep ==
    (pc = "next" /\ pc' # "next" /\ lastRead' = "field") =>
        /\ pc' = "loop"
        /\ saveCalls' = saveCalls
        /\ saved' = saved
        /\ failed' = failed
        /\ lastError' = lastError
        /\ files' = files
        /\ dirs' = dirs
        /\ responses' = responses

\* C17: a part whose filename is empty is skipped: no save call is made for
\* it, saved, failed and the last error stay as they were, and the handler
\* goes back to the top of the loop.
C17_EmptyFilenameSkipped ==
    /\ []C17_NoSaveForFields
    /\ [][C17_FieldStep]_vars

\* a read failed, then a form field was skipped
C17_Witness ==
    /\ pc = "loop"
    /\ lastRead = "field"
    /\ nextPartCalls = 2
    /\ saveCalls = 0
    /\ failed = 1
    /\ lastError = ErrNextPartUnexpectedEOF

\* ---------------------------------------------------------------- C19
\* C19 as stated: when the deadline has elapsed while a save call is in
\* flight, the save is aborted and reports failure: the part is counted as
\* failed, never as saved.
C19_DeadlineAbortsSave ==
    [][(pc = "save" /\ ctxDone /\ pc' # "save") =>
           (saved' = saved /\ failed' = failed + 1)]_vars

\* ---------------------------------------------------------------- C20
\* the errors of mr.NextPart other than an unexpected EOF
OtherReadErrors == {ErrNextPartEOF, ErrBoundaryEmpty}

\* the step in which mr.NextPart returns an error
C20_ReadErrorStep ==
    (pc = "next" /\ pc' # "next") =>
        /\ lastRead' = ErrNextPartUnexpectedEOF =>
               /\ failed' = failed + 1
               /\ saved' = saved
               /\ lastError' = ErrNextPartUnexpectedEOF
               /\ pc' = "loop"
               /\ loopExit' = "none"
               /\ responses' = responses
        /\ lastRead' \in OtherReadErrors =>
               /\ failed' = failed
               /\ saved' = saved
               /\ lastError' = lastRead'
               /\ pc' = "classify"
               /\ loopExit' = "abort"

\* back at the top of the loop the handler reads again unless the deadline
\* has passed
C20_ReadsAgain ==
    (pc = "loop" /\ pc' # "loop") =>
        IF ctxDone THEN pc' = "done" ELSE pc' = "next"

\* once the loop is left there is no further read and no further save
C20_LoopEnded ==
    pc \in {"classify", "done"} =>
        /\ pc' \in {"classify", "done"}
        /\ nextPartCalls' = nextPartCalls
        /\ saveCalls' = saveCalls
        /\ files' = files

\* C20: a NextPart error that is an unexpected EOF adds one to failed, becomes
\* the last error and the loop goes on to another read; any other NextPart
\* error becomes the last error, leaves failed and saved alone and ends the
\* loop, after which nothing is read or saved.
C20_ReadFailure ==
    [][C20_ReadErrorStep /\ C20_ReadsAgain /\ C20_LoopEnded]_vars

\* an unexpected EOF was counted and the loop read again; the second read
\* failed with another error and ended the loop
C20_Witness ==
    /\ pc = "done"
    /\ loopExit = "abort"
    /\ lastRead = ErrNextPartEOF
    /\ lastError = ErrNextPartEOF
    /\ ueofReads = 1
    /\ failed = 1
    /\ nextPartCalls = 2

\* ---------------------------------------------------------------- C12
\* the session identifier is set by StartSession, before the first read, and
\* by nothing else
C12_SubfolderFixed ==
    /\ subfolder' # subfolder => (pc = "session" /\ nextPartCalls = 0)
    /\ nextPartCalls' > 0 => subfolder' # <<>>

\* the name about to be handed to the backend is the session identifier, a
\* separator and the sanitized filename
C12_NameComposed ==
    pc = "save" =>
        storageName(subfolder, part.filename)
            = subfolder \o <<Sep>> \o sanitizeFilename(part.filename)

\* C12 as stated: the session identifier is computed once before the first
\* part is read and never changes, and every name passed to save is
\* {sessionIdentifier}/{sanitizedFilename}, so that all files of a request
\* land under one prefix.
C12_OneSessionPrefix ==
    /\ []C12_NameComposed
    /\ [][C12_SubfolderFixed]_vars

\* ---------------------------------------------------------------- C13
\* p is dir or lies below it, and no element of p steps upwards
WithinDir(dir, p) ==
    /\ p = dir \/ HasPrefix(p, dir \o <<Sep>>)
    /\ \A k \in 1..Len(SplitPath(p)) : SplitPath(p)[k] # DotDot

\* C13: whatever filename a part declares, the name the handler builds for it
\* resolves, under LocalStorage, to the base directory or a path below it,
\* and under S3Storage to a key below the prefix; never to a place outside.
C13_NameStaysInRoot ==
    nameCall.step = "named" =>
        /\ WithinDir(Clean(BasePath), storagePath("local", nameCall.name))
        /\ HasPrefix(storagePath("s3", nameCall.name), S3Prefix \o <<Sep>>)

\* the filename '..' was handled: its storage name is '.', the root itself
C13_Witness ==
    /\ nameCall.step = "named"
    /\ nameCall.input = <<"/", ".", ".">>
    /\ nameCall.output = DotDot
    /\ nameCall.name = Dot
    /\ storagePath("local", nameCall.name) = <<"uploads">>

\* ---------------------------------------------------------------- C14
\* the positions of a string that hold none of '/', '\' and ':'
KeptPositions(in) == {i \in 1..Len(in) : in[i] \notin {"/", "\\", ":"}}

\* '../../../etc/passwd'
EtcPasswd ==
    << ".", ".", "/", ".", ".", "/", ".", ".", "/", "e", "t", "c", "/",
       "p", "a", "s", "s", "w", "d" >>

\* '......etcpasswd'
EtcPasswdSanitized ==
    << ".", ".", ".", ".", ".", ".", "e", "t", "c", "p", "a", "s", "s", "w", "d" >>

\* C14: the output of sanitizeFilename is its input without the characters
\* '/', '\' and ':': every other character is kept, in its place in the
\* order; the output holds none of the three, an input without them comes
\* back unchanged, and '../../../etc/passwd' gives '......etcpasswd'.
C14_RemovesExactlySeparators ==
    /\ sanitizeFilename(EtcPasswd) = EtcPasswdSanitized
    /\ nameCall.step = "sanitized" =>
           LET in == nameCall.input
               out == nameCall.output
               kept == KeptPositions(in)
           IN /\ Len(out) = Cardinality(kept)
              /\ \A i \in kept : out[Cardinality({j \in kept : j <= i})] = in[i]
              /\ KeptPositions(out) = 1..Len(out)
              /\ kept = 1..Len(in) => out = in

\* a name with a colon in the middle was sanitized
C14_Witness ==
    /\ nameCall.step = "sanitized"
    /\ nameCall.input = <<"a", ":", ".">>
    /\ nameCall.output = <<"a", ".">>

\* ---------------------------------------------------------------- C15
\* filepath.IsAbs
IsAbs(p) == HasPrefix(p, <<Sep>>)

\* C15 as stated: the output of sanitizeFilename is never absolute, is a
\* single path element, and path-cleaning it returns it unchanged.
C15_OutputIsClean ==
    nameCall.step = "sanitized" =>
        /\ ~IsAbs(nameCall.output)
        /\ Len(SplitPath(nameCall.output)) = 1
        /\ Clean(nameCall.output) = nameCall.output

\* C15 as amended: the output is never absolute and holds no separator; when
\* it is not empty, path-cleaning returns it unchanged; it is empty exactly
\* when the input holds nothing but '/', '\' and ':', and then path-cleaning
\* gives '.'.
C15_NonEmptyOutputIsClean ==
    nameCall.step = "sanitized" =>
        /\ ~IsAbs(nameCall.output)
        /\ Len(SplitPath(nameCall.output)) = 1
        /\ nameCall.output # <<>> => Clean(nameCall.output) = nameCall.output
        /\ nameCall.output = <<>> <=> KeptPositions(nameCall.input) = {}
        /\ nameCall.output = <<>> => Clean(nameCall.output) = Dot

\* an absolute-looking name was sanitized to one clean element
C15_Witness ==
    /\ nameCall.step = "sanitized"
    /\ nameCall.input = <<"/", "a", ":">>
    /\ nameCall.output = <<"a">>
    /\ Clean(nameCall.output) = <<"a">>

\* ---------------------------------------------------------------- C16
\* the statuses of the handler's table of outcomes
HandlerStatuses == {201, 206, 400, 403, 405, 408}

\* nothing is written before the handler returns, and what is written then is
\* one response with a status of the table
C16_ExactlyOneResponse ==
    IF pc = "done"
    THEN Len(responses) = 1 /\ response.status \in HandlerStatuses
    ELSE responses = <<>>

\* C16: every invocation of the handler returns (each call it makes returns
\* and the deadline fires), and when it returns it has written exactly one
\* response, with status 201, 206, 400, 403, 405 or 408; until then it has
\* written none.
C16_ReturnsWithOneResponse ==
    /\ []C16_ExactlyOneResponse
    /\ (pc # "idle") ~> (pc = "done")

\* a body whose reads kept failing: the handler left the loop at the deadline
C16_Witness ==
    /\ pc = "done"
    /\ loopExit = "deadline"
    /\ lastRead = ErrNextPartUnexpectedEOF
    /\ nextPartCalls = MaxReads
    /\ Len(responses) = 1
    /\ response.status = 408

\* ---------------------------------------------------------------- C18
\* C18 as stated: a session whose identifier differs from that of an earlier
\* session stores each of its files under a name the earlier session stored
\* nothing under, and leaves what the earlier session stored as it was.
C18_SeparateGroups ==
    [][(first.sub # <<>> /\ subfolder # first.sub
            /\ pc = "save" /\ saved' = saved + 1) =>
           /\ storagePath(backend, storageName(subfolder, part.filename))
                 \notin DOMAIN first.files
           /\ \A p \in DOMAIN first.files :
                 p \in DOMAIN files' /\ files'[p] = first.files[p]]_vars

\* ---------------------------------------------------------------- C21
\* the two responses of the deadline rows
IsDeadlineResponse(r) ==
    \/ r.status = 408
    \/ /\ r.status = 206
       /\ r.fmt = "Upload partially completed: %d file(s) uploaded, %d failed due to timeout"

\* C21 as stated: if the deadline had elapsed when the loop was left, in
\* whatever way it was left, the response is 206 when saved > 0 and 408 when
\* saved = 0, never 201 or 400.
C21_DeadlineRowsAlways ==
    (pc = "done" /\ loopExit # "none" /\ late.atExit) =>
        response.status = IF saved > 0 THEN 206 ELSE 408

\* C21 as amended: the deadline rows are given exactly when the loop is left
\* by the check at the top of an iteration, 206 with saved > 0 and 408 with
\* saved = 0; a loop left by the end of the body or by a read error is
\* answered 201, 206 'failed' or 400, from saved and failed alone, even when
\* the deadline had elapsed by then.
C21_DeadlineRowsAtCheckOnly ==
    (pc = "done" /\ loopExit # "none") =>
        /\ IsDeadlineResponse(response) <=> loopExit = "deadline"
        /\ loopExit = "deadline" =>
               /\ late.atExit
               /\ response.status = IF saved > 0 THEN 206 ELSE 408
        /\ loopExit \in {"eof", "abort"} =>
               response.status = IF saved = 0 THEN 400
                                 ELSE IF failed > 0 THEN 206 ELSE 201

\* the deadline passed during the last read; the body ended and the answer
\* is 201
C21_Witness ==
    /\ pc = "done"
    /\ loopExit = "eof"
    /\ late.atExit
    /\ late.reads = 1
    /\ saved = 1
    /\ response.status = 201

\* ---------------------------------------------------------------- C22
\* C22: once the deadline has elapsed the handler begins at most one more
\* NextPart call and at most one more SaveFile call; the check at the top of
\* the next iteration, or the end of the loop, stops it.
C22_AtMostOneMoreReadAndSave ==
    /\ late.reads <= 1
    /\ late.saves <= 1
    /\ late.reads = 1 => pc # "next"
    /\ late.saves = 1 => pc \notin {"next", "save"}

\* the deadline passed right after a check: one more part was read and saved
\* before the next check stopped the handler
C22_Witness ==
    /\ pc = "done"
    /\ loopExit = "deadline"
    /\ late.reads = 1
    /\ late.saves = 1
    /\ saved = 1
    /\ response.status = 206

\* ---------------------------------------------------------------- C23
\* a save call is pending: the handler is inside storageBackend.SaveFile
SavePending == IF pc = "save" THEN 1 ELSE 0

\* C23, at most one save per file part: the save calls made and the one
\* pending always add up to the file-named parts read so far, and the pending
\* call is for the part mr.NextPart returned last
C23_OneSavePerFilePart ==
    /\ saveCalls + SavePending = fileParts
    /\ pc = "save" => (part # NoPart /\ lastRead = "file")
    /\ pc # "save" => part = NoPart

\* C23, no retry and no overlap: a failed save is followed by the loop top,
\* not by another save, and every call of mr.NextPart is made with no save
\* pending and every earlier file part's save already returned
C23_SaveCompletesBeforeNextRead ==
    [][/\ saveCalls' = saveCalls + 1 => (pc = "save" /\ pc' = "loop" /\ part' = NoPart)
       /\ nextPartCalls' = nextPartCalls + 1 =>
            (pc = "next" /\ part = NoPart /\ saveCalls = fileParts)]_vars

\* C23: one save per file part, in body order, finished before the next read
C23_SavesOncePerPartInOrder ==
    [](C23_OneSavePerFilePart) /\ C23_SaveCompletesBeforeNextRead

\* two file parts were read, the first save failed and was not repeated, the
\* second succeeded
C23_Witness ==
    /\ pc = "done"
    /\ fileParts = 2
    /\ saveCalls = 2
    /\ failed = 1
    /\ saved = 1
    /\ lastError \in {ErrMkdir, ErrCreate, ErrWrite, ErrUnexpectedEOF}

\* ---------------------------------------------------------------- C25
\* C25: the handler never calls the storage with a name whose filename
\* component after the session prefix is empty
C25_NoEmptyFilenameComponent ==
    pc = "save" => sanitizeFilename(part.filename) # <<>>

\* ---------------------------------------------------------------- C26
\* C26: a 201 response is written only with the last-error slot unset and
\* after the body was read to its end-of-stream signal
C26_CreatedOnlyWithoutErrors ==
    (pc = "done" /\ response.status = 201) => (lastError = Nil /\ loopExit = "eof")

\* C26 as the code has it: a 201 response is written exactly when the loop
\* was left by end-of-stream or by abort with saved > 0 and failed = 0. No
\* save failed and no read was interrupted in such a session, but the
\* last-error slot may hold the read error that aborted the loop, which is
\* recorded and not counted
C26_CreatedIffSavedAndNoneFailed ==
    (pc = "done" /\ loopExit # "none") =>
        /\ response.status = 201 <=>
             (loopExit \in {"eof", "abort"} /\ saved > 0 /\ failed = 0)
        /\ response.status = 201 =>
             /\ saveCalls = saved
             /\ ueofReads = 0
             /\ lastError # Nil <=> loopExit = "abort"
             /\ loopExit = "abort" => (lastError = lastRead /\ lastError \in OtherReadErrors)

\* a part was saved, the next read failed with an aborting error, and the
\* response is 201 with the error still recorded
C26_Witness ==
    /\ pc = "done"
    /\ response.status = 201
    /\ loopExit = "abort"
    /\ saved = 1
    /\ lastError = ErrNextPartEOF

\* ---------------------------------------------------------------- C27
\* C27: two file parts of one request are never stored under the same name,
\* so the saved count equals the number of files stored: in a session in
\* which no save has failed, a successful save of a properly named part goes
\* to a name that holds no file yet
C27_NoTwoPartsUnderOneName ==
    [][(/\ pc = "save"
        /\ saved' = saved + 1
        /\ saveCalls = saved
        /\ ProperFilename(part.filename))
       => storagePath(backend, storageName(subfolder, part.filename)) \notin DOMAIN files]_vars

\* ---------------------------------------------------------------- C28
\* C28: a save that returns an error leaves the stored files as they were, so
\* no file, truncated or not, appears or changes under the name of a part
\* counted as failed
C28_FailedSaveLeavesStorageUnchanged ==
    [][(pc = "save" /\ failed' = failed + 1 /\ ProperFilename(part.filename))
       => files' = files]_vars

\* ---------------------------------------------------------------- C24
\* C24: two sessions running at the same time never write to the same storage
\* name: a save of the session followed does not go to a name the other
\* session wrote, and a save of the other session does not go to a name that
\* already holds a file
C24_SessionsNeverShareAName ==
    [][/\ (pc = "save" /\ saveCalls' = saveCalls + 1 /\ ProperFilename(part.filename))
          => storagePath(backend, storageName(subfolder, part.filename))
                 \notin DOMAIN first.files
       /\ first.files' # first.files
          => DOMAIN first.files' \cap DOMAIN files = {}]_vars

====
